---- MODULE Spec2Model ----
(***************************************************************************)
(* Model of the Windows Prefetch decoder of tap-plugin-prefetch            *)
(* (src/src/lib.rs): PrefetchHeader::from_reader, the three                *)
(* FileInformation::*_from_reader, VolumeInformation::from_reader, the     *)
(* assembler Prefetch::from_file and its caller PrefetchPlugin::run.       *)
(*                                                                         *)
(* The byte source is a finite byte sequence with a cursor.  32-bit fields *)
(* are kept at their full width as two 16-bit halves [hi, lo], so that a   *)
(* value such as 0xFFFFFFFF and the carry of a 32-bit addition are         *)
(* represented exactly.  Stream positions (u64) use the same shape, with   *)
(* hi allowed to reach 65536.                                              *)
(***************************************************************************)
EXTENDS Integers, Sequences, FiniteSets, TLC

VARIABLES
  file,           \* the immutable content of the file
  rejectedTs,     \* raw timestamps WindowsTimestamp::to_datetime refuses
  overflowChecks, \* build profile: TRUE = overflow checks on (debug)
  startAt,        \* where the byte source's cursor is when from_file is called
  run,            \* number of the current PrefetchPlugin::run invocation
  pc,             \* position of Prefetch::from_file (the assembler's state)
  cursor,         \* cursor of the byte source
  ioLog,          \* every seek and read issued on the byte source, in order
  err,            \* the error from_file returns, if any
  header,         \* PrefetchHeader, once decoded
  fileInfo,       \* FileInformation, once decoded
  volInfo,        \* VolumeInformation, once decoded
  files,          \* the file-path list, once decoded
  volumes,        \* the folder paths pushed so far
  loop,           \* the folder-path loop: its seek target and iteration count
  prefetch,       \* the Prefetch record from_file returns, if any
  attrs,          \* attributes PrefetchPlugin::run stored on the node
  outcomes        \* what each finished invocation returned, in order

vars == <<file, rejectedTs, overflowChecks, startAt, run, pc, cursor, ioLog, err,
          header, fileInfo, volInfo, files, volumes, loop, prefetch, attrs,
          outcomes>>

None == [none |-> TRUE]

(***************************************************************************)
(* Bounds of the model.                                                    *)
(***************************************************************************)
\* invocations of the plugin on the same file
MaxRuns == 2
\* largest folder_path_count tried besides 0xFFFFFFFF
MaxFolderCount == 3
\* largest initial cursor tried by the specification SpecAnywhere
MaxStartAt == 4

(***************************************************************************)
(* 32-bit and 64-bit values.                                               *)
(***************************************************************************)
W(hi, lo) == [hi |-> hi, lo |-> lo]
Small(n) == W(0, n)

\* little-endian bytes of a u32
Le32(w) == <<w.lo % 256, w.lo \div 256, w.hi % 256, w.hi \div 256>>
Le16(n) == <<n % 256, n \div 256>>

\* u32::from_le_bytes
FromLe32(b) == W(b[3] + 256 * b[4], b[1] + 256 * b[2])
FromLe16(b) == b[1] + 256 * b[2]

\* the mathematical sum of two u32 values (hi may reach 131071)
ExactSum(a, b) ==
  LET lo == a.lo + b.lo
  IN  W(a.hi + b.hi + (lo \div 65536), lo % 65536)

Overflows32(a, b) == ExactSum(a, b).hi >= 65536

\* the sum reduced modulo 2^32
WrappingSum(a, b) ==
  LET s == ExactSum(a, b) IN W(s.hi % 65536, s.lo)

\* position plus a small byte count
Advance(p, n) ==
  LET lo == p.lo + n IN W(p.hi + (lo \div 65536), lo % 65536)

\* a < b on values of this shape
Less(a, b) == a.hi < b.hi \/ (a.hi = b.hi /\ a.lo < b.lo)

(***************************************************************************)
(* The files the model decodes.  Each is a complete prefetch file in the   *)
(* layout below with some of its fields replaced and its tail cut off: the *)
(* header, the execution information of all three versions, a file-path    *)
(* list of two strings, the volume record, and two folder-path strings.    *)
(* A file is held as its length and its bytes in rows.                     *)
(***************************************************************************)
FileListAt == 212
FileListSize == 2 * 4
VolumeAt == FileListAt + FileListSize
VolumeSize == 9 * 4
FoldersAt == VolumeAt + VolumeSize
FullLen == FoldersAt + 8

Zero8 == <<0, 0, 0, 0, 0, 0, 0, 0>>
Max8 == <<255, 255, 255, 255, 255, 255, 255, 255>>
MaxU32 == W(65535, 65535)

Stamp(kind, typical) ==
  IF kind = "zero" THEN Zero8 ELSE IF kind = "max" THEN Max8 ELSE typical

\* the fields of the file p, each with the offset it lies at; every byte
\* outside them is zero
Segments(p) ==
  << <<0, Le32(p.ver)>>,
     <<4, p.sig>>,
     <<12, Le32(Small(1000))>>,
     <<16, Le16(p.name0)>>,
     <<76, Le32(W(57005, 48879))>>,
     <<100, Le32(p.fileOff)>>,
     <<104, Le32(p.fileSize)>>,
     <<108, Le32(p.volOff)>>,
     <<120, Stamp(p.tsExec, <<1, 2, 3, 4, 5, 6, 7, 1>>)>>,
     <<128, Stamp(p.tsExec, <<8, 7, 6, 5, 4, 3, 2, 1>>)>>,
     <<144, Le32(Small(3))>>,
     <<152, Le32(Small(5))>>,
     <<208, Le32(Small(7))>>,
     <<FileListAt, Le16(p.file0) \o <<0, 0, 98, 0, 0, 0>> >>,
     <<VolumeAt + 8, Stamp(p.tsVol, <<9, 9, 9, 9, 9, 9, 9, 1>>)>>,
     <<VolumeAt + 16, Le32(W(4660, 22136))>>,
     <<VolumeAt + 28, Le32(p.folderOff)>>,
     <<VolumeAt + 32, Le32(p.folderCount)>>,
     <<FoldersAt, <<1, 0>> \o Le16(p.folder0) \o <<1, 0, 100, 0>> >> >>

\* the byte of the segments at offset i
ByteIn(segs, i) ==
  LET hit == {k \in DOMAIN segs : segs[k][1] <= i /\ i < segs[k][1] + Len(segs[k][2])}
  IN  IF hit = {} THEN 0
      ELSE LET k == CHOOSE k \in hit : TRUE IN segs[k][2][i - segs[k][1] + 1]

\* the file p: its length and its bytes in rows of RowSize, the last row
\* filled with zeros
RowSize == 4 * 4
File(p) ==
  LET segs == Segments(p)
      At(i) == IF i < p.cut THEN ByteIn(segs, i) ELSE 0
  IN  [len  |-> p.cut,
       rows |-> [r \in 1..((p.cut + RowSize - 1) \div RowSize) |->
                  [c \in 1..RowSize |-> At((r - 1) * RowSize + c - 1)]]]

\* the length of the file, its byte at absolute offset i < FileLen, and its n
\* bytes at absolute offset off
FileLen == file.len
ByteAt(i) == file.rows[(i \div RowSize) + 1][(i % RowSize) + 1]
Field(off, n) == SubSeq([k \in 1..n |-> ByteAt(off + k - 1)], 1, n)

Baseline ==
  [ver |-> Small(17), sig |-> <<83, 67, 67, 65>>, name0 |-> 84,
   file0 |-> 97, folder0 |-> 99,
   fileOff |-> Small(FileListAt), fileSize |-> Small(FileListSize),
   volOff |-> Small(VolumeAt), folderOff |-> Small(VolumeSize),
   folderCount |-> Small(1), tsExec |-> "typical", tsVol |-> "typical",
   cut |-> FullLen]

Supported == {Small(17), Small(23), Small(26)}
Versions == Supported \cup {Small(48), Small(153)}

\* header fields and truncation points inside the header
HeaderInputs ==
  {[Baseline EXCEPT !.ver = v, !.sig = s, !.name0 = n, !.cut = c] :
     v \in Versions,
     s \in {<<83, 67, 67, 65>>, <<255, 67, 67, 65>>, <<17, 0, 0, 0>>},
     n \in {84, 55296},
     c \in {0, 3, 4, 7, 8, 11, 12, 16, 75, 76, 80, 100, 111, 112, FullLen}}

\* timestamps and truncation points after the header
BodyInputs ==
  {[Baseline EXCEPT !.ver = v, !.tsExec = e, !.tsVol = t, !.cut = c] :
     v \in Supported,
     e \in {"typical", "zero", "max"},
     t \in {"typical", "zero", "max"},
     c \in {120, 127, 128, 136, 147, 148, 156, 211, 212, 219, 220, 255, 256,
            FullLen}}

\* the offsets, sizes and counts the later steps seek and loop by
OffsetInputs ==
  {[Baseline EXCEPT !.ver = v, !.fileOff = fo, !.fileSize = fs, !.volOff = vo,
                    !.folderOff = go, !.folderCount = gc, !.cut = c] :
     v \in {Small(17), Small(26)},
     fo \in {Small(FileListAt), Small(FullLen), Small(768)},
     fs \in {Small(0), Small(FileListSize), W(1, 0)},
     vo \in {Small(VolumeAt), Small(768)},
     go \in {Small(VolumeSize), Small(VolumeSize + 4), Small(4096), MaxU32},
     gc \in {Small(n) : n \in 0..MaxFolderCount} \cup {MaxU32},
     c \in {FullLen - 2, FullLen}}

\* malformed text in the file-path list and the folder-path table
TextInputs ==
  {[Baseline EXCEPT !.file0 = f, !.folder0 = g, !.folderCount = gc, !.cut = c] :
     f \in {97, 55296},
     g \in {99, 56320},
     gc \in {Small(n) : n \in 0..MaxFolderCount} \cup {MaxU32},
     c \in {FullLen - 5, FullLen - 2, FullLen}}

Inputs == HeaderInputs \cup BodyInputs \cup OffsetInputs \cup TextInputs

(***************************************************************************)
(* The byte source (std::io::Read + Seek over a finite stream).  A reader  *)
(* value r carries the cursor, the log of operations issued so far and the *)
(* name of the decode step issuing them.                                   *)
(***************************************************************************)
\* bytes the stream can still deliver from position p
Available(p) == IF p.hi = 0 /\ p.lo <= FileLen THEN FileLen - p.lo ELSE 0

Logged(r, op, at, n, got) ==
  Append(r.log, [op |-> op, at |-> at, n |-> n, got |-> got, step |-> r.step])

\* file.seek(SeekFrom::Start(target)): a seek beyond the end of the stream
\* succeeds, as it does on std::fs::File and std::io::Cursor
SeekStart(r, target) ==
  [r EXCEPT !.pos = target, !.log = Logged(r, "seek", target, 0, 0)]

\* file.seek(SeekFrom::Current(n))
SeekCurrent(r, n) == SeekStart(r, Advance(r.pos, n))

\* mutant of ReadExact: a short read is not detected; the missing bytes are
\* taken as zero (read in place of read_exact)
ReadExactUnchecked(r, n) ==
  [ok    |-> TRUE,
   bytes |-> [i \in 1..n |-> IF r.pos.hi = 0 /\ r.pos.lo + i <= FileLen
                               THEN ByteAt(r.pos.lo + i - 1) ELSE 0],
   r     |-> [r EXCEPT !.pos = Advance(r.pos, n),
                       !.log = Logged(r, "read", r.pos, n, n)]]

\* file.read_exact of n bytes: delivers the n bytes under the cursor, or
\* fails with UnexpectedEof after consuming what the stream had left
ReadExact(r, n) ==
  LET avail == Available(r.pos)
      got   == IF n <= avail THEN n ELSE avail
  IN  [ok    |-> n <= avail,
       bytes |-> IF n <= avail THEN Field(r.pos.lo, n) ELSE <<>>,
       r     |-> [r EXCEPT !.pos = Advance(r.pos, got),
                           !.log = Logged(r, "read", r.pos, n, got)]]

\* a read whose length is a u32 taken from the file
ReadSpan(r, size) ==
  IF size.hi = 0 THEN ReadExact(r, size.lo)
  ELSE LET avail == Available(r.pos)
       IN  [ok |-> FALSE, bytes |-> <<>>,
            r  |-> [r EXCEPT !.pos = Advance(r.pos, avail),
                             !.log = Logged(r, "read", r.pos, -1, avail)]]

\* file.read_u32::<LittleEndian>()
ReadU32(r) ==
  LET x == ReadExact(r, 4)
  IN  [ok |-> x.ok, val |-> IF x.ok THEN FromLe32(x.bytes) ELSE Small(0), r |-> x.r]

\* file.read_u64::<LittleEndian>(): the eight raw bytes
ReadU64(r) == ReadExact(r, 8)

Ok(v, r) == [ok |-> TRUE, err |-> "None", val |-> v, r |-> r]
Fail(e, r) == [ok |-> FALSE, err |-> e, val |-> None, r |-> r]

(***************************************************************************)
(* Text decoding.                                                          *)
(***************************************************************************)
IsCont(b) == b >= 128 /\ b <= 191

\* std::str::from_utf8 accepts the byte sequence
RECURSIVE ValidUtf8(_)
ValidUtf8(b) ==
  IF b = <<>> THEN TRUE
  ELSE LET h == Head(b)
           n == IF h < 128 THEN 1
                ELSE IF h >= 194 /\ h <= 223 THEN 2
                ELSE IF h >= 224 /\ h <= 239 THEN 3
                ELSE IF h >= 240 /\ h <= 244 THEN 4
                ELSE 0
       IN  /\ n > 0
           /\ Len(b) >= n
           /\ \A i \in 2..n : IsCont(b[i])
           /\ (h = 224 => b[2] >= 160)
           /\ (h = 237 => b[2] <= 159)
           /\ (h = 240 => b[2] >= 144)
           /\ (h = 244 => b[2] <= 143)
           /\ ValidUtf8(SubSeq(b, n + 1, Len(b)))

\* the UTF-16LE code units of an even-length byte sequence
Units(b) == [i \in 1..(Len(b) \div 2) |-> b[2 * i - 1] + 256 * b[2 * i]]

IsHighSurrogate(u) == u >= 55296 /\ u <= 56319
IsLowSurrogate(u) == u >= 56320 /\ u <= 57343

\* String::from_utf16 accepts the code units: every surrogate is paired
RECURSIVE ValidUtf16(_)
ValidUtf16(u) ==
  IF u = <<>> THEN TRUE
  ELSE IF IsHighSurrogate(u[1])
       THEN Len(u) >= 2 /\ IsLowSurrogate(u[2]) /\ ValidUtf16(SubSeq(u, 3, Len(u)))
       ELSE ~IsLowSurrogate(u[1]) /\ ValidUtf16(Tail(u))

\* the code units before the first null one
RECURSIVE UntilNull(_)
UntilNull(u) ==
  IF u = <<>> \/ u[1] = 0 THEN <<>> ELSE <<u[1]>> \o UntilNull(Tail(u))

\* the null-terminated strings of a run of code units, in order
RECURSIVE SplitAtNull(_)
SplitAtNull(u) ==
  IF u = <<>> THEN <<>>
  ELSE LET s == UntilNull(u)
       IN  IF Len(s) = Len(u) THEN <<s>>
           ELSE <<s>> \o SplitAtNull(SubSeq(u, Len(s) + 2, Len(u)))

\* tap::vfile::read_utf16_exact(file, size): a fixed-length field, decoded
\* and cut at the first null code unit
ReadUtf16Exact(r, size) ==
  LET x == ReadExact(r, size)
  IN  IF ~x.ok THEN Fail("Io", x.r)
      ELSE IF ~ValidUtf16(Units(x.bytes)) THEN Fail("Utf16", x.r)
      ELSE Ok(UntilNull(Units(x.bytes)), x.r)

\* tap::vfile::read_sized_utf16(file): a 2-byte unit count, then that many
\* code units
ReadSizedUtf16(r) ==
  LET c == ReadExact(r, 2)
  IN  IF ~c.ok THEN Fail("Io", c.r)
      ELSE LET x == ReadExact(c.r, 2 * FromLe16(c.bytes))
           IN  IF ~x.ok THEN Fail("Io", x.r)
               ELSE IF ~ValidUtf16(Units(x.bytes)) THEN Fail("Utf16", x.r)
               ELSE Ok(Units(x.bytes), x.r)

\* tap::vfile::read_utf16_list(file, size): the null-terminated strings
\* filling a span of size bytes
ReadUtf16List(r, size) ==
  LET x == ReadSpan(r, size)
  IN  IF ~x.ok THEN Fail("Io", x.r)
      ELSE IF ~ValidUtf16(Units(x.bytes)) THEN Fail("Utf16", x.r)
      ELSE Ok(SplitAtNull(Units(x.bytes)), x.r)

\* tap::datetime::WindowsTimestamp(raw).to_datetime(): the instant of the
\* raw tick count, refused for the raw values the conversion cannot represent
ToDatetime(raw) ==
  IF raw \in rejectedTs THEN [ok |-> FALSE, val |-> None]
  ELSE [ok |-> TRUE, val |-> [ticks |-> raw]]

(***************************************************************************)
(* PrefetchHeader::from_reader                                             *)
(***************************************************************************)
\* the match on the version code
VersionOf(code) ==
  IF code = Small(17) THEN "WindowsXP"           \* 0x11
  ELSE IF code = Small(23) THEN "WindowsVista"   \* 0x17
  ELSE IF code = Small(26) THEN "Windows8"       \* 0x1a
  ELSE IF code = Small(48) THEN "Windows10"      \* 0x30
  ELSE "NoMatch"

\* length in bytes of the executable-name field
NameSize == 60
\* absolute offset of the three pointer fields (0x64)
PointerOffset == 100

\* Reads from wherever the cursor is; only the three pointer fields are
\* reached by an absolute seek.
HeaderFromReader(r0) ==
  LET v == ReadU32(r0) IN
  IF ~v.ok THEN Fail("Io", v.r) ELSE
  IF VersionOf(v.val) = "NoMatch" THEN Fail("CantMatchVersion", v.r) ELSE
  LET s == ReadExact(v.r, 4) IN
  IF ~s.ok THEN Fail("Io", s.r) ELSE
  IF ~ValidUtf8(s.bytes) THEN Fail("Utf8", s.r) ELSE
  LET fs == ReadU32(SeekCurrent(s.r, 4)) IN
  IF ~fs.ok THEN Fail("Io", fs.r) ELSE
  LET nm == ReadUtf16Exact(fs.r, NameSize) IN
  IF ~nm.ok THEN Fail(nm.err, nm.r) ELSE
  LET h == ReadU32(nm.r) IN
  IF ~h.ok THEN Fail("Io", h.r) ELSE
  LET fo == ReadU32(SeekStart(h.r, Small(PointerOffset))) IN
  IF ~fo.ok THEN Fail("Io", fo.r) ELSE
  LET sz == ReadU32(fo.r) IN
  IF ~sz.ok THEN Fail("Io", sz.r) ELSE
  LET vo == ReadU32(sz.r) IN
  IF ~vo.ok THEN Fail("Io", vo.r) ELSE
  Ok([version                   |-> VersionOf(v.val),
      signature                 |-> s.bytes,
      file_size                 |-> fs.val,
      file_name                 |-> nm.val,
      hash                      |-> h.val,
      first_file_path_offset    |-> fo.val,
      first_file_path_size      |-> sz.val,
      volume_information_offset |-> vo.val], vo.r)

(***************************************************************************)
(* FileInformation::{xp,vista,w8}_from_reader                              *)
(***************************************************************************)
XpTimeOffset == 120      \* 0x78
XpCountOffset == 144     \* 0x90
VistaTimeOffset == 128   \* 0x80
VistaCountOffset == 152  \* 0x98
W8TimeOffset == 128      \* 0x80
W8CountOffset == 208     \* 0xD0

\* the body the three functions share: seek, 8-byte timestamp, conversion,
\* seek, 4-byte run count
FileInformationAt(r0, timeOffset, countOffset) ==
  LET t == ReadU64(SeekStart(r0, Small(timeOffset))) IN
  IF ~t.ok THEN Fail("Io", t.r) ELSE
  LET d == ToDatetime(t.bytes) IN
  IF ~d.ok THEN Fail("Timestamp", t.r) ELSE
  LET c == ReadU32(SeekStart(t.r, Small(countOffset))) IN
  IF ~c.ok THEN Fail("Io", c.r) ELSE
  Ok([last_execution_time |-> d.val, number_of_execution |-> c.val], c.r)

\* mutant of W8FromReader: the run count is read at the Vista offset
W8FromReaderVistaCount(r) == FileInformationAt(r, W8TimeOffset, VistaCountOffset)

XpFromReader(r) == FileInformationAt(r, XpTimeOffset, XpCountOffset)

VistaFromReader(r) == FileInformationAt(r, VistaTimeOffset, VistaCountOffset)

W8FromReader(r) == FileInformationAt(r, W8TimeOffset, W8CountOffset)

(***************************************************************************)
(* VolumeInformation::from_reader                                          *)
(***************************************************************************)
VolumeFromReader(r0) ==
  LET po == ReadU32(r0) IN
  IF ~po.ok THEN Fail("Io", po.r) ELSE
  LET ps == ReadU32(po.r) IN
  IF ~ps.ok THEN Fail("Io", ps.r) ELSE
  LET t == ReadU64(ps.r) IN
  IF ~t.ok THEN Fail("Io", t.r) ELSE
  LET d == ToDatetime(t.bytes) IN
  IF ~d.ok THEN Fail("Timestamp", t.r) ELSE
  LET sn == ReadU32(t.r) IN
  IF ~sn.ok THEN Fail("Io", sn.r) ELSE
  LET bo == ReadU32(sn.r) IN
  IF ~bo.ok THEN Fail("Io", bo.r) ELSE
  LET bs == ReadU32(bo.r) IN
  IF ~bs.ok THEN Fail("Io", bs.r) ELSE
  LET fo == ReadU32(bs.r) IN
  IF ~fo.ok THEN Fail("Io", fo.r) ELSE
  LET fc == ReadU32(fo.r) IN
  IF ~fc.ok THEN Fail("Io", fc.r) ELSE
  Ok([volume_path_offset   |-> po.val,
      volume_path_size     |-> ps.val,
      volume_creation_date |-> d.val,
      volume_serial_number |-> sn.val,
      blob1_offset         |-> bo.val,
      blob1_size           |-> bs.val,
      folder_path_offset   |-> fo.val,
      folder_path_count    |-> fc.val], fc.r)

(***************************************************************************)
(* The initial state.                                                      *)
(***************************************************************************)
Reset ==
  /\ err = "None"
  /\ header = None
  /\ fileInfo = None
  /\ volInfo = None
  /\ files = <<>>
  /\ volumes = <<>>
  /\ loop = None
  /\ prefetch = None

\* the raw timestamps of the file whose conversion may be refused: the
\* extreme values; refusing a value the file does not hold changes nothing
Suspects(p) == {Stamp(p.tsExec, <<>>), Stamp(p.tsVol, <<>>)} \cap {Zero8, Max8}

InitWith(inputs, starts) ==
  /\ \E p \in inputs : file = File(p) /\ rejectedTs \in SUBSET Suspects(p)
  /\ overflowChecks \in BOOLEAN
  /\ startAt \in starts
  /\ run = 0
  /\ pc = "Idle"
  /\ cursor = Small(0)
  /\ ioLog = <<>>
  /\ Reset
  /\ attrs = <<>>
  /\ outcomes = <<>>

\* the repository's callers hand from_file a freshly opened byte source
Init == InitWith(Inputs, {0})

(***************************************************************************)
(* Prefetch::from_file, one action per decode step.  Every step ends in    *)
(* `?`: its error is returned at once and nothing after it runs.           *)
(***************************************************************************)
Reader(step) == [pos |-> cursor, log |-> ioLog, step |-> step]

\* the effect of a step's I/O on the byte source
Source(r) == cursor' = r.pos /\ ioLog' = r.log

\* mutant of Return: the error is dropped and decoding goes on
ReturnIgnored(e) == pc' = pc /\ err' = err

\* `?` on Err: from_file returns the error
Return(e) == pc' = "Failed" /\ err' = e

\* let prefetch_header = PrefetchHeader::from_reader(file)?;
DecodeHeader ==
  /\ pc = "Start"
  /\ LET res == HeaderFromReader(Reader("Header"))
     IN  /\ Source(res.r)
         /\ IF res.ok
            THEN pc' = "HeaderRead" /\ header' = res.val /\ err' = err
            ELSE Return(res.err) /\ header' = header
  /\ UNCHANGED <<file, rejectedTs, overflowChecks, startAt, run, fileInfo,
                 volInfo, files, volumes, loop, prefetch, attrs, outcomes>>

\* mutant of FileInformationFor: the Win10 tag is decoded with the Win8 layout
FileInformationForWin10AsW8(version, r) ==
  IF version = "WindowsVista" THEN VistaFromReader(r)
  ELSE IF version = "WindowsXP" THEN XpFromReader(r)
  ELSE W8FromReader(r)

\* the match on prefetch_header.version
FileInformationFor(version, r) ==
  IF version = "WindowsVista" THEN VistaFromReader(r)
  ELSE IF version = "WindowsXP" THEN XpFromReader(r)
  ELSE IF version = "Windows8" THEN W8FromReader(r)
  ELSE Fail("UnsupportedVersion", r)

DecodeExecutionInfo ==
  /\ pc = "HeaderRead"
  /\ LET res == FileInformationFor(header.version, Reader("ExecutionInfo"))
     IN  /\ Source(res.r)
         /\ IF res.ok
            THEN pc' = "ExecutionInfoRead" /\ fileInfo' = res.val /\ err' = err
            ELSE Return(res.err) /\ fileInfo' = fileInfo
  /\ UNCHANGED <<file, rejectedTs, overflowChecks, startAt, run, header,
                 volInfo, files, volumes, loop, prefetch, attrs, outcomes>>

\* file.seek(SeekFrom::Start(volume_information_offset));
\* VolumeInformation::from_reader(file)?
DecodeVolumeInfo ==
  /\ pc = "ExecutionInfoRead"
  /\ LET r0  == Reader("VolumeInfo")
         res == VolumeFromReader(SeekStart(r0, header.volume_information_offset))
     IN  /\ Source(res.r)
         /\ IF res.ok
            THEN pc' = "VolumeInfoRead" /\ volInfo' = res.val /\ err' = err
            ELSE Return(res.err) /\ volInfo' = volInfo
  /\ UNCHANGED <<file, rejectedTs, overflowChecks, startAt, run, header,
                 fileInfo, files, volumes, loop, prefetch, attrs, outcomes>>

\* file.seek(SeekFrom::Start(first_file_path_offset));
\* read_utf16_list(file, first_file_path_size)?
DecodeFilePaths ==
  /\ pc = "VolumeInfoRead"
  /\ LET r0  == Reader("FilePaths")
         res == ReadUtf16List(SeekStart(r0, header.first_file_path_offset),
                              header.first_file_path_size)
     IN  /\ Source(res.r)
         /\ IF res.ok
            THEN pc' = "FilePathsRead" /\ files' = res.val /\ err' = err
            ELSE Return(res.err) /\ files' = files
  /\ UNCHANGED <<file, rejectedTs, overflowChecks, startAt, run, header,
                 fileInfo, volInfo, volumes, loop, prefetch, attrs, outcomes>>

\* volume_information_offset + folder_path_offset, a u32 addition: on
\* overflow the build with overflow checks panics, the one without wraps
FolderOffset(volumeOffset, folderOffset) ==
  [panics |-> overflowChecks /\ Overflows32(volumeOffset, folderOffset),
   target |-> WrappingSum(volumeOffset, folderOffset)]

\* let offset = ...; file.seek(SeekFrom::Start(offset as u64))?;
SeekFolderPaths ==
  /\ pc = "FilePathsRead"
  /\ loop = None
  /\ LET off == FolderOffset(header.volume_information_offset,
                             volInfo.folder_path_offset)
     IN  IF off.panics
         THEN pc' = "Panicked" /\ UNCHANGED <<cursor, ioLog, loop>>
         ELSE /\ Source(SeekStart(Reader("FolderPaths"), off.target))
              /\ loop' = [target |-> off.target, i |-> 0]
              /\ pc' = pc
  /\ UNCHANGED <<file, rejectedTs, overflowChecks, startAt, run, err, header,
                 fileInfo, volInfo, files, volumes, prefetch, attrs, outcomes>>

\* for _ in 0..folder_path_count: is there another iteration
LoopContinues(i, count) == Less(Small(i), count)

\* one iteration: let decoded = read_sized_utf16(file)?; volumes.push(decoded)
ReadFolderPath ==
  /\ pc = "FilePathsRead"
  /\ loop # None
  /\ LoopContinues(loop.i, volInfo.folder_path_count)
  /\ LET res == ReadSizedUtf16(Reader("FolderPaths"))
     IN  /\ Source(res.r)
         /\ loop' = [loop EXCEPT !.i = @ + 1]
         /\ IF res.ok
            THEN pc' = pc /\ volumes' = Append(volumes, res.val) /\ err' = err
            ELSE Return(res.err) /\ volumes' = volumes
  /\ UNCHANGED <<file, rejectedTs, overflowChecks, startAt, run, header,
                 fileInfo, volInfo, files, prefetch, attrs, outcomes>>

\* the range is exhausted
EndFolderPaths ==
  /\ pc = "FilePathsRead"
  /\ loop # None
  /\ ~LoopContinues(loop.i, volInfo.folder_path_count)
  /\ pc' = "FolderPathsRead"
  /\ UNCHANGED <<file, rejectedTs, overflowChecks, startAt, run, cursor, ioLog,
                 err, header, fileInfo, volInfo, files, volumes, loop, prefetch,
                 attrs, outcomes>>

\* Ok(Prefetch{header, file_information, volume_information, files, volumes})
Assemble ==
  /\ pc = "FolderPathsRead"
  /\ pc' = "Done"
  /\ prefetch' = [header |-> header, file_information |-> fileInfo,
                  volume_information |-> volInfo, files |-> files,
                  volumes |-> volumes]
  /\ UNCHANGED <<file, rejectedTs, overflowChecks, startAt, run, cursor, ioLog,
                 err, header, fileInfo, volInfo, files, volumes, loop, attrs,
                 outcomes>>

(***************************************************************************)
(* PrefetchPlugin::run                                                     *)
(***************************************************************************)
\* plugin!("prefetch", ...): what self.name() returns
PluginName == "prefetch"

\* mutant of Open: the byte source of the previous invocation is reused, its
\* cursor left where that decode stopped
OpenReusingSource ==
  /\ pc \in {"Idle", "Returned"}
  /\ run < MaxRuns
  /\ run' = run + 1
  /\ pc' = "Start"
  /\ cursor' = IF run = 0 THEN Small(startAt) ELSE cursor
  /\ ioLog' = <<>>
  /\ err' = "None"
  /\ header' = None
  /\ fileInfo' = None
  /\ volInfo' = None
  /\ files' = <<>>
  /\ volumes' = <<>>
  /\ loop' = None
  /\ prefetch' = None
  /\ UNCHANGED <<file, rejectedTs, overflowChecks, startAt, attrs, outcomes>>

\* data_builder.open()?; BufReader::new(file): a new byte source over the
\* file, then Prefetch::from_file(&mut file) is entered
Open ==
  /\ pc \in {"Idle", "Returned"}
  /\ run < MaxRuns
  /\ run' = run + 1
  /\ pc' = "Start"
  /\ cursor' = Small(startAt)
  /\ ioLog' = <<>>
  /\ err' = "None"
  /\ header' = None
  /\ fileInfo' = None
  /\ volInfo' = None
  /\ files' = <<>>
  /\ volumes' = <<>>
  /\ loop' = None
  /\ prefetch' = None
  /\ UNCHANGED <<file, rejectedTs, overflowChecks, startAt, attrs, outcomes>>

\* mutant of AttributeFor: on failure what was decoded so far is stored
AttributeForPartial(result, record) ==
  IF result = "Done" THEN <<[name |-> "prefetch", value |-> record]>>
  ELSE IF result = "Failed" THEN <<[name |-> PluginName, value |-> header]>>
  ELSE <<>>

\* the attribute run adds to the node for a result of from_file
AttributeFor(result, record) ==
  IF result = "Done" THEN <<[name |-> "prefetch", value |-> record]>>
  ELSE IF result = "Failed" THEN <<[name |-> PluginName, value |-> None]>>
  ELSE <<>>

\* the match on the result of from_file: Ok stores the record and returns
\* Ok(Results{}); Err stores the marker and returns the error; a panic
\* unwinds through run, which stores nothing
Store ==
  /\ pc \in {"Done", "Failed", "Panicked"}
  /\ attrs' = attrs \o AttributeFor(pc, prefetch)
  /\ outcomes' = Append(outcomes, [result |-> pc, err |-> err,
                                   prefetch |-> prefetch,
                                   stored |-> AttributeFor(pc, prefetch)])
  /\ pc' = "Returned"
  /\ UNCHANGED <<file, rejectedTs, overflowChecks, startAt, run, cursor, ioLog,
                 err, header, fileInfo, volInfo, files, volumes, loop, prefetch>>

Next ==
  \/ Open
  \/ DecodeHeader
  \/ DecodeExecutionInfo
  \/ DecodeVolumeInfo
  \/ DecodeFilePaths
  \/ SeekFolderPaths
  \/ ReadFolderPath
  \/ EndFolderPaths
  \/ Assemble
  \/ Store

Spec == Init /\ [][Next]_vars

\* from_file is public: a caller may hand it a byte source whose cursor is
\* anywhere
InitAnywhere == InitWith(HeaderInputs \cup TextInputs, 0..MaxStartAt)

SpecAnywhere == InitAnywhere /\ [][Next]_vars

(***************************************************************************)
(* What the properties below speak about.                                  *)
(***************************************************************************)
\* the error kinds of the specification, for the errors of the code
ErrorKind(e) ==
  IF e \in {"CantMatchVersion", "UnsupportedVersion"} THEN "UnsupportedVersion"
  ELSE IF e = "Io" THEN "Truncated"
  ELSE IF e = "Utf8" THEN "MalformedSignature"
  ELSE IF e = "Timestamp" THEN "InvalidTimestamp"
  ELSE IF e = "Utf16" THEN "InvalidStringEncoding"
  ELSE "None"

\* from_file has been entered and has taken at least its first step
Entered == pc \notin {"Idle", "Start"}

\* the 4-byte version code of the file, when the file holds one
HasCode == FileLen >= 4
Code == FromLe32(Field(0, 4))

\* the log entries of one decode step
EntriesOf(step) ==
  LET Test(e) == e.step = step IN SelectSeq(ioLog, Test)

\* a log entry delivered no byte lying at or beyond the end of the stream
InsideStream(e) == e.got = 0 \/ (e.at.hi = 0 /\ e.at.lo + e.got <= FileLen)

\* position x lies beyond the end of the stream
Beyond(x) == x.hi > 0 \/ x.lo > FileLen

(***************************************************************************)
(* C1                                                                      *)
(***************************************************************************)
\* C1 as stated: for every version code other than 0x11, 0x17 and 0x1a
\* (0x30 included) the Header Decoder itself fails with UnsupportedVersion:
\* no header is ever produced, whatever the remaining bytes are.
C1_HeaderDecoderRejectsUnsupported ==
  (HasCode /\ Code \notin Supported /\ Entered)
    => /\ header = None
       /\ pc \in {"Failed", "Returned"}
       /\ ErrorKind(err) = "UnsupportedVersion"

\* C1 as amended: a version code other than 0x11, 0x17 and 0x1a never
\* yields a record and nothing after the header is read.  A code outside
\* the four-entry table is refused by the Header Decoder as soon as it is
\* read, whatever follows.  The Win10 code 0x30 is accepted by the Header
\* Decoder: the rest of the header is decoded (and may fail with an I/O or
\* text-decoding error), a header is produced when it decodes, and it is
\* from_file that then fails with UnsupportedVersion.
C1_UnsupportedCodeNeverDecodes ==
  (HasCode /\ Code \notin Supported /\ Entered)
    => /\ pc \in {"HeaderRead", "Failed", "Returned"}
       /\ prefetch = None /\ fileInfo = None
       /\ \A i \in DOMAIN ioLog : ioLog[i].step = "Header"
       /\ Code # Small(48)
            => header = None /\ err = "CantMatchVersion" /\ Len(ioLog) = 1
       /\ Code = Small(48)
            => IF header = None
               THEN err \in {"Io", "Utf8", "Utf16"}
               ELSE /\ header.version = "Windows10"
                    /\ pc # "HeaderRead" => err = "UnsupportedVersion"

\* a Win10 file whose header decoded and which from_file then refused
C1_Win10HeaderDecoded ==
  /\ HasCode /\ Code = Small(48)
  /\ header # None
  /\ pc = "Failed" /\ err = "UnsupportedVersion"

(***************************************************************************)
(* C2                                                                      *)
(***************************************************************************)
\* the first byte after the volume-information-offset field (0x70)
MinHeaderSize == PointerOffset + 12

\* C2 as stated: for every buffer shorter than 0x70 bytes from_file returns
\* the Truncated/IOError kind of error (a short read or an invalid text
\* sequence), never another kind and never a record, and reads no byte at or
\* beyond the buffer's length.
C2_ShortBufferIsTruncated ==
  (FileLen < MinHeaderSize /\ Entered)
    => /\ pc \in {"Failed", "Returned"}
       /\ err \in {"Io", "Utf8", "Utf16"}
       /\ prefetch = None
       /\ \A i \in DOMAIN ioLog : InsideStream(ioLog[i])

\* the error the fields present in a short buffer call for
ShortBufferError ==
  IF FileLen < 4 THEN "Io"
  ELSE IF Code \notin Versions \ {Small(153)} THEN "CantMatchVersion"
  ELSE IF FileLen < 8 THEN "Io"
  ELSE IF ~ValidUtf8(Field(4, 4)) THEN "Utf8"
  ELSE IF FileLen < 76 THEN "Io"
  ELSE IF ~ValidUtf16(Units(Field(16, 60))) THEN "Utf16"
  ELSE "Io"

\* C2 as amended: for every buffer shorter than 0x70 bytes from_file returns
\* an error and never a header or a record, and reads no byte at or beyond
\* the buffer's length.  The error is that of the first field that fails: a
\* present version code outside the table gives UnsupportedVersion, a present
\* non-UTF-8 signature or malformed name the text-decoding error, and
\* otherwise the short read gives the I/O error.
C2_ShortBufferFails ==
  (FileLen < MinHeaderSize /\ Entered)
    => /\ pc \in {"Failed", "Returned"}
       /\ err = ShortBufferError
       /\ header = None /\ prefetch = None
       /\ \A i \in DOMAIN ioLog : InsideStream(ioLog[i])

\* a short buffer refused for its version code, not for its length
C2_ShortBufferBadCode ==
  /\ FileLen < MinHeaderSize /\ FileLen >= 100
  /\ pc = "Failed" /\ err = "CantMatchVersion"

(***************************************************************************)
(* C4                                                                      *)
(***************************************************************************)
\* the layout table of the specification
LayoutTable(version) ==
  IF version = "WindowsXP" THEN [time |-> 120, count |-> 144]
  ELSE IF version = "WindowsVista" THEN [time |-> 128, count |-> 152]
  ELSE [time |-> 128, count |-> 208]

\* C4: for each supported version the Execution-Info Decoder reads the
\* 8-byte timestamp and the 4-byte run count from that version's absolute
\* offsets (XP 0x78/0x90, Vista 0x80/0x98, Win8 0x80/0xD0) and from no
\* other; the version tag of the header alone selects the pair.
C4_ExecutionInfoOffsets ==
  header # None =>
    LET L == LayoutTable(header.version)
        X == EntriesOf("ExecutionInfo")
    IN  IF header.version = "Windows10" THEN X = <<>>
        ELSE /\ \A i \in DOMAIN X :
                  \/ X[i].at = Small(L.time) /\ X[i].n \in {0, 8}
                  \/ X[i].at = Small(L.count) /\ X[i].n \in {0, 4}
             /\ fileInfo # None =>
                  /\ [i \in DOMAIN X |-> <<X[i].op, X[i].at, X[i].n>>]
                       = << <<"seek", Small(L.time), 0>>,
                            <<"read", Small(L.time), 8>>,
                            <<"seek", Small(L.count), 0>>,
                            <<"read", Small(L.count), 4>> >>
                  /\ fileInfo.last_execution_time.ticks = Field(L.time, 8)
                  /\ fileInfo.number_of_execution = FromLe32(Field(L.count, 4))

\* a Win8 file whose execution information was decoded
C4_Win8ExecutionInfoRead ==
  /\ header # None /\ header.version = "Windows8"
  /\ pc = "ExecutionInfoRead"
  /\ fileInfo # None /\ fileInfo.number_of_execution = Small(7)

(***************************************************************************)
(* C3                                                                      *)
(***************************************************************************)
\* the header a freshly opened byte source decodes to
FreshHeader ==
  HeaderFromReader([pos |-> Small(0), log |-> <<>>, step |-> "Header"]).val

\* C3 as stated: wherever the cursor is when decoding starts, the Header
\* Decoder reads the version code at absolute offset 0x00, the signature at
\* 0x04, the file size at 0x0C, the name at 0x10, the hash at 0x4C and the
\* pointer fields at 0x64/0x68/0x6C, so the decoded header does not depend
\* on the initial cursor.
C3_HeaderReadAtAbsoluteOffsets ==
  Entered =>
    /\ LET X == EntriesOf("Header")
       IN  \A i \in DOMAIN X :
             X[i].op = "read" =>
               <<X[i].at, X[i].n>> \in
                 {<<Small(0), 4>>, <<Small(4), 4>>, <<Small(12), 4>>,
                  <<Small(16), 60>>, <<Small(76), 4>>, <<Small(100), 4>>,
                  <<Small(104), 4>>, <<Small(108), 4>>}
    /\ header = FreshHeader

(***************************************************************************)
(* C5                                                                      *)
(***************************************************************************)
\* C5 as stated: whenever first_file_path_offset, volume_information_offset
\* or volume_information_offset + folder_path_offset lies beyond the end of
\* the stream, from_file ends with an error, never with a record and never
\* with a crash, whatever the size and count fields are.
C5_OffsetBeyondEndFails ==
  (header # None /\
     \/ Beyond(header.first_file_path_offset)
     \/ Beyond(header.volume_information_offset)
     \/ volInfo # None /\ Beyond(ExactSum(header.volume_information_offset,
                                          volInfo.folder_path_offset)))
    => /\ pc \notin {"FolderPathsRead", "Done", "Panicked"}
       /\ prefetch = None

(***************************************************************************)
(* C6                                                                      *)
(***************************************************************************)
\* the number of complete length-prefixed strings the bytes from offset o
\* to the end of the stream hold
RECURSIVE SupplyFrom(_)
SupplyFrom(o) ==
  IF o + 2 > FileLen THEN 0
  ELSE LET n == FromLe16(Field(o, 2))
       IN  IF o + 2 + 2 * n > FileLen THEN 0
           ELSE 1 + SupplyFrom(o + 2 + 2 * n)

Supply(target) == IF target.hi > 0 THEN 0 ELSE SupplyFrom(target.lo)

\* the folder-path loop has been entered with a count the stream cannot supply
CountExceedsSupply ==
  /\ loop # None
  /\ Less(Small(Supply(loop.target)), volInfo.folder_path_count)

\* the folder-path loop did not read more often than folder_path_count
WithinCount == ~Less(volInfo.folder_path_count, Small(loop.i))

\* C6 as stated: with folder_path_count larger than the number of strings
\* the remaining bytes can supply, the loop ends with a Truncated error
\* after at most folder_path_count string reads, stopping at the first
\* failed one, and reads no byte past the declared volume record (the 36
\* bytes at volume_information_offset).
C6_LoopStaysInsideVolumeRecord ==
  CountExceedsSupply
    => /\ pc \in {"FilePathsRead", "Failed", "Returned"}
       /\ pc # "FilePathsRead" => err = "Io" /\ Len(volumes) = loop.i - 1
       /\ WithinCount
       /\ LET X == EntriesOf("FolderPaths")
              end == Advance(header.volume_information_offset, 36)
          IN  \A i \in DOMAIN X :
                X[i].got = 0 \/ ~Less(end, Advance(X[i].at, X[i].got))

\* C6 as amended: with folder_path_count larger than the number of
\* length-prefixed strings the bytes from the folder-path seek target to the
\* end of the stream can supply, the loop ends with an error after at most
\* folder_path_count string reads, stopping at the first failed one: the I/O
\* error at the first string the stream cannot supply, or the
\* string-decoding error at a malformed string before it.  It reads no byte
\* at or beyond the end of the stream; its reads are not confined to the
\* volume record.
C6_LoopEndsAtEndOfStream ==
  CountExceedsSupply
    => /\ pc \in {"FilePathsRead", "Failed", "Returned"}
       /\ WithinCount
       /\ loop.i <= Supply(loop.target) + 1
       /\ IF pc = "FilePathsRead"
          THEN Len(volumes) = loop.i
          ELSE /\ Len(volumes) = loop.i - 1
               /\ err \in {"Io", "Utf16"}
               /\ err = "Io" <=> loop.i = Supply(loop.target) + 1
       /\ LET X == EntriesOf("FolderPaths")
          IN  \A i \in DOMAIN X : InsideStream(X[i])

\* the loop failed at the third string of a table that holds two
C6_ThirdStringMissing ==
  /\ CountExceedsSupply
  /\ pc = "Failed" /\ err = "Io"
  /\ Len(volumes) = 2 /\ loop.i = 3

(***************************************************************************)
(* C7                                                                      *)
(***************************************************************************)
\* C7 as stated: when a decode step fails from_file returns only the error
\* and no record, and run stores a value-less marker and returns the same
\* error; an attribute named "prefetch" is stored only when the decode
\* reached Done.
C7_PrefetchAttributeOnlyWhenDone ==
  /\ pc = "Failed" => prefetch = None /\ err # "None"
  /\ \A i \in DOMAIN outcomes :
       LET o == outcomes[i]
       IN  /\ o.result = "Failed"
             => /\ o.prefetch = None
                /\ Len(o.stored) = 1 /\ o.stored[1].value = None
                /\ o.err # "None"
           /\ \A k \in DOMAIN o.stored :
                o.stored[k].name = "prefetch" => o.result = "Done"

\* C7 as amended: when a decode step fails from_file returns only the error
\* and no record, and run stores a value-less marker and returns the same
\* error.  The marker is itself named "prefetch", the plugin's name: an
\* attribute "prefetch" that carries a record is stored only when the decode
\* reached Done, and then it carries the record from_file returned.
C7_RecordAttributeOnlyWhenDone ==
  /\ pc = "Failed" => prefetch = None /\ err # "None"
  /\ prefetch # None => pc \in {"Done", "Returned"}
  /\ \A i \in DOMAIN outcomes :
       LET o == outcomes[i]
       IN  /\ o.result = "Failed"
             => /\ o.prefetch = None
                /\ o.stored = <<[name |-> "prefetch", value |-> None]>>
                /\ o.err # "None"
           /\ \A k \in DOMAIN o.stored :
                o.stored[k].value # None
                  => /\ o.result = "Done"
                     /\ o.stored[k] = [name |-> "prefetch", value |-> o.prefetch]
  /\ Len(attrs) = Cardinality({i \in DOMAIN outcomes : outcomes[i].result # "Panicked"})

\* a failed decode whose marker has been stored on the node
C7_MarkerStored ==
  /\ pc = "Returned"
  /\ outcomes[Len(outcomes)].result = "Failed"
  /\ attrs[Len(attrs)] = [name |-> "prefetch", value |-> None]

(***************************************************************************)
(* C8                                                                      *)
(***************************************************************************)
Order == <<"Start", "HeaderRead", "ExecutionInfoRead", "VolumeInfoRead",
           "FilePathsRead", "FolderPathsRead", "Done">>

Follows(a, b) == \E i \in 1..(Len(Order) - 1) : Order[i] = a /\ Order[i + 1] = b

\* the log entries a step appends
Appended == SubSeq(ioLog', Len(ioLog) + 1, Len(ioLog'))

\* C8 as stated: every run of from_file goes through Start, HeaderRead,
\* ExecutionInfoRead, VolumeInfoRead, FilePathsRead, FolderPathsRead, Done
\* in that order without repeating or skipping a state; the first decoder
\* error moves it from a non-terminal state to Failed, with that error, and
\* no seek or read is issued afterwards; every seek target of a step is
\* taken from fields read in an earlier step.
C8_StrictSequence ==
  [][/\ pc' = "Start" => pc \in {"Idle", "Returned"}
     /\ (pc' # pc /\ pc \notin {"Idle", "Returned"})
          => \/ Follows(pc, pc')
             \/ pc \notin {"Done", "Failed"} /\ pc' = "Failed" /\ err' # "None"
             \/ pc \in {"Done", "Failed"} /\ pc' = "Returned"
     /\ pc' \notin {"Failed", "Returned"} => err' = "None"
     /\ pc = "Failed" => ioLog' = ioLog
     /\ pc' # "Start" =>
          \A i \in DOMAIN Appended :
            LET e == Appended[i]
            IN  /\ e.step = "VolumeInfo" /\ e.op = "seek"
                     => header # None /\ e.at = header.volume_information_offset
                /\ e.step = "FilePaths" /\ e.op = "seek"
                     => header # None /\ e.at = header.first_file_path_offset
                /\ e.step = "FolderPaths"
                     => header # None /\ volInfo # None
    ]_vars

C10_FolderSeekIsExactSum ==
  /\ pc # "Panicked"
  /\ loop # None
       => /\ loop.target = ExactSum(header.volume_information_offset,
                                    volInfo.folder_path_offset)
          /\ \E i \in DOMAIN ioLog :
               /\ ioLog[i].op = "seek" /\ ioLog[i].step = "FolderPaths"
               /\ ioLog[i].at = loop.target

====
